---- MODULE Spec2Model ----
(***************************************************************************)
(* Model of newspaper/build.js: the mustache-like template engine          *)
(* (render, getNestedValue), the CSS inliner (inlineCSS) and the per-site  *)
(* build loop (build).                                                     *)
(*                                                                         *)
(* Strings are sequences of one-character strings, so that the regular     *)
(* expressions of the source are matched character by character.  JSON     *)
(* values are tagged records: t is the JavaScript type, the other field    *)
(* the payload.                                                            *)
(***************************************************************************)
EXTENDS Integers, Sequences, FiniteSets, TLC

VARIABLES
    \* render(template, data)
    tokens,     \* the pieces the input template was assembled from
    template,   \* argument `template` of render
    data,       \* argument `data` of render
    pc,         \* position inside render
    expanded,   \* `template` after the section replace (line 51)
    out,        \* value returned by render (line 60)
    out2,       \* render(out, data): the output rendered once more
    \* getNestedValue(obj, path)
    lobj,       \* argument `obj`
    lpath,      \* argument `path`
    lsegs,      \* segments of path.split('.') not yet reduced
    lcur,       \* accumulator `current` of the reduce
    lpc,        \* position inside getNestedValue
    \* build()
    bpc,        \* position inside build
    idx,        \* index into NEWSPAPERS of the paper being built
    btemplate,  \* local `template` of the loop body
    bcontent,   \* local `content` of the loop body
    bhtml,      \* local `html` of the loop body
    files,      \* files of TEMPLATES_DIR, CONTENT_DIR and STYLES_DIR
    dist,       \* files of DIST_DIR: output name -> contents
    reports     \* lines printed by console.log / console.error in the loop

vars == <<tokens, template, data, pc, expanded, out, out2,
          lobj, lpath, lsegs, lcur, lpc,
          bpc, idx, btemplate, bcontent, bhtml, files, dist, reports>>

renderVars == <<tokens, template, data, pc, expanded, out, out2>>
lookupVars == <<lobj, lpath, lsegs, lcur, lpc>>
buildVars == <<bpc, idx, btemplate, bcontent, bhtml, files, dist, reports>>

----------------------------------------------------------------------------
(* Bounds of the model *)

\* longest input template, in pieces (tags, placeholders, text characters)
MaxTokens == 3
\* longest input template made of section tags only
MaxNestTokens == 4
\* largest number occurring in a context
MaxNum == 2
\* longest key path handed to getNestedValue, in segments
MaxDepth == 3

----------------------------------------------------------------------------
(* JavaScript values *)

Undefined == [t |-> "undefined"]
Null == [t |-> "null"]
Bool(b) == [t |-> "boolean", b |-> b]
Num(n) == [t |-> "number", n |-> n]
Str(s) == [t |-> "string", s |-> s]
Arr(s) == [t |-> "array", items |-> s]
Obj(f) == [t |-> "object", entries |-> f]

\* faulty variant of IsTruthy: tests `value !== undefined` instead of truthiness
IsTruthyDefined(value) == value.t # "undefined"

\* ToBoolean, as applied by `value` in `if (value)` and by `current &&`
IsTruthy(value) ==
    CASE value.t = "undefined" -> FALSE
      [] value.t = "null" -> FALSE
      [] value.t = "boolean" -> value.b
      [] value.t = "number" -> value.n # 0
      [] value.t = "string" -> Len(value.s) > 0
      [] OTHER -> TRUE

Digit(d) == CASE d = 0 -> "0" [] d = 1 -> "1" [] d = 2 -> "2" [] d = 3 -> "3"
              [] d = 4 -> "4" [] d = 5 -> "5" [] d = 6 -> "6" [] d = 7 -> "7"
              [] d = 8 -> "8" [] d = 9 -> "9"

Digits == {"0", "1", "2", "3", "4", "5", "6", "7", "8", "9"}

DigitValue(c) == CHOOSE d \in 0..9 : Digit(d) = c

RECURSIVE NumberToString(_)
\* Number::toString of a non-negative integer
NumberToString(n) ==
    IF n < 10 THEN <<Digit(n)>> ELSE NumberToString(n \div 10) \o <<Digit(n % 10)>>

RECURSIVE Join(_, _)
\* Array.prototype.join of a sequence of strings
Join(strs, sep) ==
    IF Len(strs) = 0 THEN <<>>
    ELSE IF Len(strs) = 1 THEN strs[1]
    ELSE strs[1] \o sep \o Join(Tail(strs), sep)

RECURSIVE ToStringJS(_)
\* ToStringJS, as String.prototype.replace applies it to what a replacer
\* function returns and to a non-string replacement argument
ToStringJS(value) ==
    CASE value.t = "undefined" -> <<"u","n","d","e","f","i","n","e","d">>
      [] value.t = "null" -> <<"n","u","l","l">>
      [] value.t = "boolean" ->
            IF value.b THEN <<"t","r","u","e">> ELSE <<"f","a","l","s","e">>
      [] value.t = "number" -> NumberToString(value.n)
      [] value.t = "string" -> value.s
      [] value.t = "array" ->
            Join([i \in 1..Len(value.items) |->
                    IF value.items[i].t \in {"undefined", "null"} THEN <<>>
                    ELSE ToStringJS(value.items[i])], <<",">>)
      [] OTHER -> <<"[","o","b","j","e","c","t"," ","O","b","j","e","c","t","]">>

----------------------------------------------------------------------------
(* getNestedValue, lines 66-70 *)

RECURSIVE Split(_, _)
\* String.prototype.split with a one-character separator
Split(s, sep) ==
    IF \A i \in 1..Len(s) : s[i] # sep THEN <<s>>
    ELSE LET i == CHOOSE j \in 1..Len(s) : s[j] = sep /\ \A k \in 1..(j-1) : s[k] # sep
         IN <<SubSeq(s, 1, i-1)>> \o Split(SubSeq(s, i+1, Len(s)), sep)

RECURSIVE DecimalValue(_)
DecimalValue(s) ==
    IF Len(s) = 0 THEN 0
    ELSE 10 * DecimalValue(SubSeq(s, 1, Len(s)-1)) + DigitValue(s[Len(s)])

\* an array index in canonical form: "0", "1", ..., no leading zero
IsIndex(key) ==
    /\ Len(key) > 0
    /\ \A i \in 1..Len(key) : key[i] \in Digits
    /\ (Len(key) > 1 => key[1] # "0")

LengthKey == <<"l","e","n","g","t","h">>

\* current[key] for a truthy `current`: own entries of a mapping, the
\* elements and the length of an array, the characters and the length of a
\* string.  Keys naming a member of a prototype (toString, constructor, ...)
\* are outside the key universe of the model.
GetProperty(current, key) ==
    CASE current.t = "object" ->
            IF key \in DOMAIN current.entries THEN current.entries[key] ELSE Undefined
      [] current.t = "array" ->
            IF key = LengthKey THEN Num(Len(current.items))
            ELSE IF IsIndex(key) /\ DecimalValue(key) < Len(current.items)
                 THEN current.items[DecimalValue(key) + 1]
            ELSE Undefined
      [] current.t = "string" ->
            IF key = LengthKey THEN Num(Len(current.s))
            ELSE IF IsIndex(key) /\ DecimalValue(key) < Len(current.s)
                 THEN Str(<<current.s[DecimalValue(key) + 1]>>)
            ELSE Undefined
      [] OTHER -> Undefined

\* the reducer, line 68
ReduceStep(current, key) ==
    IF IsTruthy(current) /\ GetProperty(current, key) # Undefined
    THEN GetProperty(current, key)
    ELSE Undefined

RECURSIVE Reduce(_, _)
Reduce(current, keys) ==
    IF Len(keys) = 0 THEN current
    ELSE Reduce(ReduceStep(current, keys[1]), Tail(keys))

getNestedValue(obj, path) == Reduce(obj, Split(path, "."))

----------------------------------------------------------------------------
(* Regular expressions of render, lines 31, 38 and 54 *)

\* \s and \S over the alphabet of the model
IsWhitespace(c) == c \in {" ", "\n"}

HasPrefixAt(s, i, p) ==
    /\ i >= 1
    /\ i + Len(p) - 1 <= Len(s)
    /\ \A k \in 1..Len(p) : s[i + k - 1] = p[k]

Min(S) == CHOOSE n \in S : \A m \in S : n <= m

OpenTag(key) == <<"{", "{", "#">> \o key \o <<"}", "}">>
CloseTag(key) == <<"{", "{", "/">> \o key \o <<"}", "}">>
VarTag(key) == <<"{", "{">> \o key \o <<"}", "}">>
DotTag == <<"{", "{", ".", "}", "}">>

NoMatch == [ok |-> FALSE]

\* /\{\{#(\S+?)\}\}([\s\S]*?)\{\{\/\1\}\}/ anchored at position i: the
\* shortest key for which the rest of the pattern matches, then the
\* shortest body
MatchSectionAt(s, i) ==
    IF ~HasPrefixAt(s, i, <<"{", "{", "#">>) THEN NoMatch
    ELSE LET bodyLens(n) ==
                {b \in 0..Len(s) :
                    HasPrefixAt(s, i + 5 + n + b, CloseTag(SubSeq(s, i + 3, i + 2 + n)))}
             keyLens ==
                {n \in 1..(Len(s) - (i + 2)) :
                    /\ \A k \in 1..n : ~IsWhitespace(s[i + 2 + k])
                    /\ HasPrefixAt(s, i + 3 + n, <<"}", "}">>)
                    /\ bodyLens(n) # {}}
         IN IF keyLens = {} THEN NoMatch
            ELSE LET n == Min(keyLens)
                     b == Min(bodyLens(n))
                 IN [ok |-> TRUE,
                     key |-> SubSeq(s, i + 3, i + 2 + n),
                     content |-> SubSeq(s, i + 5 + n, i + 4 + n + b),
                     next |-> i + 5 + n + b + n + 5]

\* /\{\{(\S+?)\}\}/ anchored at position i
MatchVarAt(s, i) ==
    IF ~HasPrefixAt(s, i, <<"{", "{">>) THEN NoMatch
    ELSE LET keyLens ==
                {n \in 1..(Len(s) - (i + 1)) :
                    /\ \A k \in 1..n : ~IsWhitespace(s[i + 1 + k])
                    /\ HasPrefixAt(s, i + 2 + n, <<"}", "}">>)}
         IN IF keyLens = {} THEN NoMatch
            ELSE LET n == Min(keyLens)
                 IN [ok |-> TRUE,
                     key |-> SubSeq(s, i + 2, i + 1 + n),
                     next |-> i + 2 + n + 2]

\* GetSubstitution for a pattern without capture groups: $$, $&, $` and $'
\* of a replacement string are expanded, a $ before anything else is kept
RECURSIVE GetSubstitution(_, _, _, _)
GetSubstitution(replacement, matched, before, after) ==
    IF Len(replacement) = 0 THEN <<>>
    ELSE IF replacement[1] = "$" /\ Len(replacement) >= 2
                /\ replacement[2] \in {"$", "&", "`", "'"}
         THEN (CASE replacement[2] = "$" -> <<"$">>
                 [] replacement[2] = "&" -> matched
                 [] replacement[2] = "`" -> before
                 [] replacement[2] = "'" -> after)
              \o GetSubstitution(SubSeq(replacement, 3, Len(replacement)),
                                 matched, before, after)
    ELSE <<replacement[1]>>
         \o GetSubstitution(Tail(replacement), matched, before, after)

RECURSIVE ReplaceDotFrom(_, _, _)
\* content.replace(/\{\{\.\}\}/g, item) from position i on, line 38: the
\* replacement is a string, so its $ patterns are expanded
ReplaceDotFrom(content, i, item) ==
    IF i > Len(content) THEN <<>>
    ELSE IF HasPrefixAt(content, i, DotTag)
         THEN GetSubstitution(item, DotTag, SubSeq(content, 1, i - 1),
                              SubSeq(content, i + 5, Len(content)))
              \o ReplaceDotFrom(content, i + 5, item)
    ELSE <<content[i]>> \o ReplaceDotFrom(content, i + 1, item)

ReplaceDot(content, item) == ReplaceDotFrom(content, 1, item)

----------------------------------------------------------------------------
(* render, lines 29-61 *)

\* faulty variant of JoinLines: join('') instead of join('\n')
JoinLinesNoSeparator(strs) == Join(strs, <<>>)

JoinLines(strs) == Join(strs, <<"\n">>)

\* faulty variant of VarReplacement: `value ? value : match`
VarReplacementTruthy(match, key, ctx) ==
    IF key = <<".">> THEN match
    ELSE LET value == getNestedValue(ctx, key)
         IN IF IsTruthy(value) THEN ToStringJS(value) ELSE match

\* faulty variant of VarReplacement: `value !== undefined ? value : ''`
VarReplacementBlank(match, key, ctx) ==
    IF key = <<".">> THEN match
    ELSE LET value == getNestedValue(ctx, key)
         IN IF value # Undefined THEN ToStringJS(value) ELSE <<>>

\* the replacer of the variable replace, lines 54-58
VarReplacement(match, key, ctx) ==
    IF key = <<".">> THEN match
    ELSE LET value == getNestedValue(ctx, key)
         IN IF value # Undefined THEN ToStringJS(value) ELSE match

RECURSIVE ReplaceVarsFrom(_, _, _)
\* template.replace(/\{\{(\S+?)\}\}/g, ...) from position i on
ReplaceVarsFrom(s, i, ctx) ==
    IF i > Len(s) THEN <<>>
    ELSE LET m == MatchVarAt(s, i)
         IN IF m.ok
            THEN VarReplacement(SubSeq(s, i, m.next - 1), m.key, ctx)
                 \o ReplaceVarsFrom(s, m.next, ctx)
            ELSE <<s[i]>> \o ReplaceVarsFrom(s, i + 1, ctx)

InterpolateVariables(s, ctx) == ReplaceVarsFrom(s, 1, ctx)

RECURSIVE render(_, _)
RECURSIVE ReplaceSectionsFrom(_, _, _)

\* what the array branch returns for one element, lines 36-42
ItemReplacement(content, item) ==
    IF item.t \in {"string", "number"}
    THEN ReplaceDot(content, ToStringJS(item))
    ELSE render(content, item)

\* faulty variant of SectionReplacement: the truthy branch renders the body against
\* the enclosing context, `render(content, data)`
SectionReplacementOuter(key, content, ctx) ==
    LET value == getNestedValue(ctx, key)
    IN IF value.t = "array"
       THEN JoinLines([i \in 1..Len(value.items) |-> ItemReplacement(content, value.items[i])])
       ELSE IF IsTruthy(value) THEN render(content, ctx)
       ELSE <<>>

\* the replacer of the section replace, lines 31-51
SectionReplacement(key, content, ctx) ==
    LET value == getNestedValue(ctx, key)
    IN IF value.t = "array"
       THEN JoinLines([i \in 1..Len(value.items) |-> ItemReplacement(content, value.items[i])])
       ELSE IF IsTruthy(value) THEN render(content, value)
       ELSE <<>>

\* template.replace(/\{\{#(\S+?)\}\}([\s\S]*?)\{\{\/\1\}\}/g, ...) from
\* position i on: the text a replacer returns is not scanned again
ReplaceSectionsFrom(s, i, ctx) ==
    IF i > Len(s) THEN <<>>
    ELSE LET m == MatchSectionAt(s, i)
         IN IF m.ok
            THEN SectionReplacement(m.key, m.content, ctx)
                 \o ReplaceSectionsFrom(s, m.next, ctx)
            ELSE <<s[i]>> \o ReplaceSectionsFrom(s, i + 1, ctx)

ExpandSections(s, ctx) == ReplaceSectionsFrom(s, 1, ctx)

render(tpl, ctx) == InterpolateVariables(ExpandSections(tpl, ctx), ctx)

----------------------------------------------------------------------------
(* inlineCSS, lines 75-82 *)

LinkPrefix ==
    <<"<", "l", "i", "n", "k", " ",
      "r", "e", "l", "=", "\"", "s", "t", "y", "l", "e", "s", "h", "e", "e", "t", "\"", " ",
      "h", "r", "e", "f", "=", "\"">>

\* /<link rel="stylesheet" href="[^"]*">/ anchored at position i: [^"]*
\* runs up to the next quote, which must be followed by >
MatchLinkAt(s, i) ==
    IF ~HasPrefixAt(s, i, LinkPrefix) THEN NoMatch
    ELSE LET from == i + Len(LinkPrefix)
             quotes == {q \in from..Len(s) : s[q] = "\""}
         IN IF quotes # {} /\ HasPrefixAt(s, Min(quotes), <<"\"", ">">>)
            THEN [ok |-> TRUE, next |-> Min(quotes) + 2]
            ELSE NoMatch

\* the template literal of line 80
StyleBlock(css) ==
    <<"<", "s", "t", "y", "l", "e", ">", "\n">> \o css \o <<"\n", " ", " ", " ", " ", "<", "/", "s", "t", "y", "l", "e", ">">>

\* html.replace(/<link .../, `<style>...`): the first match only, the
\* replacement a string whose $ patterns are expanded
inlineCSS(html, css) ==
    LET starts == {i \in 1..Len(html) : MatchLinkAt(html, i).ok}
    IN IF starts = {} THEN html
       ELSE LET i == Min(starts)
                next == MatchLinkAt(html, i).next
            IN SubSeq(html, 1, i - 1)
               \o GetSubstitution(StyleBlock(css), SubSeq(html, i, next - 1),
                                  SubSeq(html, 1, i - 1), SubSeq(html, next, Len(html)))
               \o SubSeq(html, next, Len(html))

----------------------------------------------------------------------------
(* Inputs of render: templates assembled from tags, placeholders and text *)

ka == <<"a">>
kb == <<"b">>
kx == <<"x">>
k0 == <<"0">>

Tok(kind, s) == [kind |-> kind, s |-> s]

\* the text of one piece of a template
TokenText(tok) ==
    CASE tok.kind = "open" -> OpenTag(tok.s)
      [] tok.kind = "close" -> CloseTag(tok.s)
      [] tok.kind = "var" -> VarTag(tok.s)
      [] tok.kind = "dot" -> DotTag
      [] OTHER -> tok.s

Concat(strs) == Join(strs, <<>>)

Flatten(toks) == Concat([i \in 1..Len(toks) |-> TokenText(toks[i])])

SeqsUpTo(S, n) == UNION {[1..m -> S] : m \in 0..n}

\* a mapping with the entries for a, b and x that are not undefined
Context(va, vb, vx) ==
    LET val(k) == IF k = ka THEN va ELSE IF k = kb THEN vb ELSE vx
    IN Obj([k \in {k \in {ka, kb, kx} : val(k) # Undefined} |-> val(k)])

Numbers == {Num(n) : n \in 0..MaxNum}

\* conditionals and variables: a is absent, a scalar or a mapping
ConditionalTokens ==
    {Tok("open", ka), Tok("close", ka), Tok("var", kx), Tok("var", k0),
     Tok("text", <<"X">>)}
ConditionalContexts ==
    {Context(va, Undefined, vx) :
        va \in {Undefined, Null, Bool(FALSE), Bool(TRUE), Str(<<>>), Str(<<"y">>),
                Obj(kx :> Str(<<"p">>))} \cup Numbers,
        vx \in {Undefined, Bool(FALSE), Num(0), Str(<<>>), Str(<<"q">>)}}

\* loops: a is a sequence
ArrayTokens ==
    {Tok("open", ka), Tok("close", ka), Tok("var", kx), Tok("dot", <<>>),
     Tok("text", <<"X">>)}
ArrayContexts ==
    {Context(va, Undefined, vx) :
        va \in {Arr(<<>>),
                Arr(<<Num(MaxNum), Str(<<"p">>)>>),
                Arr(<<Str(<<"$", "&">>)>>),
                Arr(<<Str(<<"$", "$">>), Num(0)>>),
                Arr(<<Obj(kx :> Str(<<"p">>)), Obj(kx :> Str(<<"q">>))>>),
                Arr(<<Obj(<<>>), Obj(kx :> Num(MaxNum))>>)},
        vx \in {Undefined, Str(<<"q">>)}}

\* nesting and malformed templates: tags of two keys
NestedTokens ==
    {Tok("open", ka), Tok("close", ka), Tok("open", kb), Tok("close", kb)}
NestedContexts ==
    {Context(va, vb, Undefined) :
        va \in {Undefined, Bool(TRUE), Obj(kb :> Bool(TRUE)), Arr(<<Num(1)>>),
                Arr(<<Obj(<<>>), Obj(kb :> Bool(TRUE))>>)},
        vb \in {Undefined, Bool(TRUE)}}

RenderIdle ==
    /\ tokens = <<>> /\ template = <<>> /\ data = Undefined /\ pc = "idle"
    /\ expanded = <<>> /\ out = <<>> /\ out2 = <<>>

LookupIdle ==
    /\ lobj = Undefined /\ lpath = <<>> /\ lsegs = <<>> /\ lcur = Undefined
    /\ lpc = "idle"

BuildIdle ==
    /\ bpc = "idle" /\ idx = 0 /\ btemplate = <<>> /\ bcontent = Undefined
    /\ bhtml = <<>> /\ files = <<>> /\ dist = <<>> /\ reports = <<>>

RenderInputs ==
    \/ tokens \in SeqsUpTo(ConditionalTokens, MaxTokens) /\ data \in ConditionalContexts
    \/ tokens \in SeqsUpTo(ArrayTokens, MaxTokens) /\ data \in ArrayContexts
    \/ tokens \in SeqsUpTo(NestedTokens, MaxNestTokens) /\ data \in NestedContexts

Init ==
    /\ RenderInputs
    /\ template = Flatten(tokens)
    /\ pc = "start"
    /\ expanded = <<>> /\ out = <<>> /\ out2 = <<>>
    /\ LookupIdle /\ BuildIdle

----------------------------------------------------------------------------
(* render as a state machine: the two replace calls, then a second call *)

\* lines 31-51
Sections ==
    /\ pc = "start"
    /\ expanded' = ExpandSections(template, data)
    /\ pc' = "sections"
    /\ UNCHANGED <<tokens, template, data, out, out2, lookupVars, buildVars>>

\* lines 54-60
Variables ==
    /\ pc = "sections"
    /\ out' = InterpolateVariables(expanded, data)
    /\ pc' = "done"
    /\ UNCHANGED <<tokens, template, data, expanded, out2, lookupVars, buildVars>>

\* the caller renders the output again against the same context
RenderAgain ==
    /\ pc = "done"
    /\ out2' = render(out, data)
    /\ pc' = "again"
    /\ UNCHANGED <<tokens, template, data, expanded, out, lookupVars, buildVars>>

Next == Sections \/ Variables \/ RenderAgain

Spec == Init /\ [][Next]_vars

----------------------------------------------------------------------------
(* getNestedValue as a state machine: split, then one reduce step a segment *)

LookupSegments == {ka, kb, k0, LengthKey}

LookupPaths ==
    {Join(segs, <<".">>) : segs \in UNION {[1..n -> LookupSegments] : n \in 1..MaxDepth}}

LookupObjects ==
    {Obj(<<>>),
     Obj(ka :> Null),
     Obj(ka :> Num(0) @@ kb :> Bool(FALSE)),
     Obj(ka :> Bool(TRUE) @@ kb :> Str(<<>>)),
     Obj(ka :> Str(<<"y", "e">>)),
     Obj(ka :> Arr(<<Num(MaxNum), Obj(kb :> Num(0))>>)),
     Obj(ka :> Obj(kb :> Obj(ka :> Str(<<"d">>))) @@ kb :> Num(MaxNum))}

InitLookup ==
    /\ lobj \in LookupObjects
    /\ lpath \in LookupPaths
    /\ lsegs = <<>> /\ lcur = Undefined
    /\ lpc = "start"
    /\ RenderIdle /\ BuildIdle

\* path.split('.') and the initial value of the reduce, lines 67 and 69
LookupSplit ==
    /\ lpc = "start"
    /\ lsegs' = Split(lpath, ".")
    /\ lcur' = lobj
    /\ lpc' = "reduce"
    /\ UNCHANGED <<lobj, lpath, renderVars, buildVars>>

\* one call of the reducer, line 68
LookupReduce ==
    /\ lpc = "reduce"
    /\ lsegs # <<>>
    /\ lcur' = ReduceStep(lcur, Head(lsegs))
    /\ lsegs' = Tail(lsegs)
    /\ UNCHANGED <<lobj, lpath, lpc, renderVars, buildVars>>

\* reduce returns the accumulator
LookupReturn ==
    /\ lpc = "reduce"
    /\ lsegs = <<>>
    /\ lpc' = "done"
    /\ UNCHANGED <<lobj, lpath, lsegs, lcur, renderVars, buildVars>>

NextLookup == LookupSplit \/ LookupReduce \/ LookupReturn

SpecLookup == InitLookup /\ [][NextLookup]_vars

----------------------------------------------------------------------------
(* build, lines 87-122 *)

NEWSPAPERS ==
    <<[template |-> "chronicle.html", content |-> "chronicle.json",
       output |-> "index.html", style |-> "chronicle.css"],
      [template |-> "standard.html", content |-> "standard.json",
       output |-> "standard.html", style |-> "standard.css"],
      [template |-> "patriot.html", content |-> "patriot.json",
       output |-> "patriot.html", style |-> "patriot.css"]>>

Missing == [exists |-> FALSE]
TextFile(text) == [exists |-> TRUE, text |-> text]
\* a content file: JSON.parse returns `value`, or throws when not valid
JsonFile(value) == [exists |-> TRUE, valid |-> TRUE, value |-> value]
BadJsonFile == [exists |-> TRUE, valid |-> FALSE]

TemplateFiles == {Missing, TextFile(LinkPrefix \o <<"s", "\"", ">">> \o VarTag(kx))}
ContentFiles == {Missing, BadJsonFile, JsonFile(Obj(kx :> Str(<<"n">>)))}
StyleFiles == {Missing, TextFile(<<"c">>)}

Papers == 1..Len(NEWSPAPERS)

\* the three input directories, one file of each per paper
FileSystems ==
    [templates : [Papers -> TemplateFiles],
     content : [Papers -> ContentFiles],
     styles : [Papers -> StyleFiles]]

InitBuild ==
    /\ bpc = "start"
    /\ idx = 1
    /\ btemplate = <<>> /\ bcontent = Undefined /\ bhtml = <<>>
    /\ files \in FileSystems
    /\ dist = <<>>
    /\ reports = <<>>
    /\ RenderIdle /\ LookupIdle

\* the end of one iteration of the for loop: the next paper, or line 121
NextPaper ==
    /\ idx' = idx + 1
    /\ bpc' = IF idx = Len(NEWSPAPERS) THEN "done" ELSE "readTemplate"
    /\ btemplate' = <<>> /\ bcontent' = Undefined /\ bhtml' = <<>>

\* faulty variant of Catch: the exception leaves the loop, as with the try around
\* the for statement
CatchOutsideLoop(message) ==
    /\ reports' = Append(reports, [output |-> NEWSPAPERS[idx].output, ok |-> FALSE,
                                   message |-> message])
    /\ idx' = idx
    /\ bpc' = "done"
    /\ btemplate' = <<>> /\ bcontent' = Undefined /\ bhtml' = <<>>

\* an exception thrown in the try block: the catch clause reports the
\* paper as failed, lines 116-118, and the loop goes on
Catch(message) ==
    /\ reports' = Append(reports, [output |-> NEWSPAPERS[idx].output, ok |-> FALSE,
                                   message |-> message])
    /\ NextPaper

\* lines 88-93: mkdirSync is outside every try block
EnsureDist ==
    /\ bpc = "start"
    /\ \E made \in BOOLEAN : bpc' = IF made THEN "readTemplate" ELSE "crashed"
    /\ UNCHANGED <<idx, btemplate, bcontent, bhtml, files, dist, reports,
                   renderVars, lookupVars>>

\* line 103
ReadTemplate ==
    /\ bpc = "readTemplate"
    /\ IF files.templates[idx].exists
       THEN /\ btemplate' = files.templates[idx].text
            /\ bpc' = "readContent"
            /\ UNCHANGED <<idx, bcontent, bhtml, reports>>
       ELSE Catch("ENOENT template")
    /\ UNCHANGED <<files, dist, renderVars, lookupVars>>

\* line 104
ReadContent ==
    /\ bpc = "readContent"
    /\ IF ~files.content[idx].exists THEN Catch("ENOENT content")
       ELSE IF ~files.content[idx].valid THEN Catch("SyntaxError")
       ELSE /\ bcontent' = files.content[idx].value
            /\ bpc' = "inlineCSS"
            /\ UNCHANGED <<idx, btemplate, bhtml, reports>>
    /\ UNCHANGED <<files, dist, renderVars, lookupVars>>

\* faulty variant of InlineStep: a missing stylesheet is skipped instead of thrown
InlineStepLenient ==
    /\ bpc = "inlineCSS"
    /\ btemplate' = IF files.styles[idx].exists
                    THEN inlineCSS(btemplate, files.styles[idx].text)
                    ELSE btemplate
    /\ bpc' = "render"
    /\ UNCHANGED <<idx, bcontent, bhtml, reports>>
    /\ UNCHANGED <<files, dist, renderVars, lookupVars>>

\* line 107: inlineCSS reads the stylesheet, line 76, then replaces
InlineStep ==
    /\ bpc = "inlineCSS"
    /\ IF files.styles[idx].exists
       THEN /\ btemplate' = inlineCSS(btemplate, files.styles[idx].text)
            /\ bpc' = "render"
            /\ UNCHANGED <<idx, bcontent, bhtml, reports>>
       ELSE Catch("ENOENT style")
    /\ UNCHANGED <<files, dist, renderVars, lookupVars>>

\* line 110: render returns, or runs out of stack on a template nested too
\* deep
RenderStep ==
    /\ bpc = "render"
    /\ \E returned \in BOOLEAN :
          IF returned
          THEN /\ bhtml' = render(btemplate, bcontent)
               /\ bpc' = "write"
               /\ UNCHANGED <<idx, btemplate, bcontent, reports>>
          ELSE Catch("RangeError")
    /\ UNCHANGED <<files, dist, renderVars, lookupVars>>

\* line 113: writeFileSync writes the file, or throws before opening it, or
\* throws after truncating it
WriteOutput ==
    /\ bpc = "write"
    /\ \E result \in {"written", "refused", "truncated"} :
          IF result = "written"
          THEN /\ dist' = (NEWSPAPERS[idx].output :> bhtml) @@ dist
               /\ bpc' = "report"
               /\ UNCHANGED <<idx, btemplate, bcontent, bhtml, reports>>
          ELSE /\ dist' = IF result = "truncated"
                          THEN (NEWSPAPERS[idx].output :> <<>>) @@ dist
                          ELSE dist
               /\ Catch("write")
    /\ UNCHANGED <<files, renderVars, lookupVars>>

\* line 115
ReportSuccess ==
    /\ bpc = "report"
    /\ reports' = Append(reports, [output |-> NEWSPAPERS[idx].output, ok |-> TRUE,
                                   message |-> "ok"])
    /\ NextPaper
    /\ UNCHANGED <<files, dist, renderVars, lookupVars>>

NextBuild ==
    \/ EnsureDist
    \/ ReadTemplate
    \/ ReadContent
    \/ InlineStep
    \/ RenderStep
    \/ WriteOutput
    \/ ReportSuccess

SpecBuild == InitBuild /\ [][NextBuild]_vars

\* build is straight-line synchronous code: it keeps running until it
\* returns or an uncaught exception ends it
FairBuild == SpecBuild /\ WF_vars(NextBuild)

----------------------------------------------------------------------------
(* Vocabulary of the properties: the template seen as a sequence of pieces *)

IsTag(tok) == tok.kind \in {"open", "close"}

TagPositions(toks) == {i \in 1..Len(toks) : IsTag(toks[i])}

Max(S) == CHOOSE n \in S : \A m \in S : n >= m

\* the template is text and placeholders around exactly one block for key k
HasOneBlock(toks, k) ==
    \E i, j \in 1..Len(toks) :
        /\ i < j
        /\ TagPositions(toks) = {i, j}
        /\ toks[i] = Tok("open", k)
        /\ toks[j] = Tok("close", k)

Pre(toks) == SubSeq(toks, 1, Min(TagPositions(toks)) - 1)
Body(toks) == SubSeq(toks, Min(TagPositions(toks)) + 1, Max(TagPositions(toks)) - 1)
Post(toks) == SubSeq(toks, Max(TagPositions(toks)) + 1, Len(toks))

\* the entry of the top-level context for a one-segment key
Entry(k) == IF k \in DOMAIN data.entries THEN data.entries[k] ELSE Undefined

\* what a piece outside every block becomes when rendered against a
\* mapping: a placeholder whose key the mapping holds becomes the textual
\* form of the entry, every other piece stays as it is
PieceAgainst(tok, ctx) ==
    IF tok.kind = "var" /\ ctx.t = "object" /\ tok.s \in DOMAIN ctx.entries
    THEN ToStringJS(ctx.entries[tok.s])
    ELSE TokenText(tok)

PiecesAgainst(toks, ctx) ==
    Concat([i \in 1..Len(toks) |-> PieceAgainst(toks[i], ctx)])

\* the same against a string: the key 0 is its first character
PieceAgainstString(tok, str) ==
    IF tok.kind = "var" /\ tok.s = k0 /\ Len(str) > 0 THEN <<str[1]>>
    ELSE TokenText(tok)

\* the body of a block rendered once with `value` as its context
BodyAgainst(toks, value) ==
    IF value.t = "string"
    THEN Concat([i \in 1..Len(toks) |-> PieceAgainstString(toks[i], value.s)])
    ELSE PiecesAgainst(toks, value)

Rendered == pc \in {"done", "again"}
Expanded == pc \in {"sections", "done", "again"}

----------------------------------------------------------------------------
(* C1 *)

FalsyScalars == {Undefined, Null, Bool(FALSE), Num(0), Str(<<>>)}

\* C1: a block whose key resolves to no sequence is removed, tags and body,
\* when the key is absent or resolves to false, 0 or the empty string, and
\* then adds nothing to the output; otherwise it is replaced by its body
\* rendered once with the value as context.
C1_ConditionalBlock ==
    (Expanded /\ HasOneBlock(tokens, ka) /\ Entry(ka).t # "array")
        => /\ expanded = Flatten(Pre(tokens))
                         \o (IF Entry(ka) \in FalsyScalars THEN <<>>
                             ELSE BodyAgainst(Body(tokens), Entry(ka)))
                         \o Flatten(Post(tokens))
           /\ (Rendered /\ Entry(ka) \in FalsyScalars)
                => out = PiecesAgainst(Pre(tokens) \o Post(tokens), data)

\* a block with a body was rendered once against a truthy mapping, and a
\* placeholder of the body was resolved in it
C1_Witness ==
    /\ pc = "sections"
    /\ HasOneBlock(tokens, ka)
    /\ Entry(ka) = Obj(kx :> Str(<<"p">>))
    /\ Body(tokens) = <<Tok("var", kx)>>
    /\ expanded = <<"p">>

\* a block with a body was removed for a value that is present but falsy
C1_WitnessRemoved ==
    /\ pc = "sections"
    /\ HasOneBlock(tokens, ka)
    /\ Entry(ka) = Num(0)
    /\ Len(Body(tokens)) > 0
    /\ expanded = <<>>

----------------------------------------------------------------------------
(* C2 *)

TextualForm(value) == IF value.t = "number" THEN NumberToString(value.n) ELSE value.s

\* the body with every {{.}} replaced by the text of the element
BodyForElement(toks, elem) ==
    Concat([i \in 1..Len(toks) |->
              IF toks[i].kind = "dot" THEN TextualForm(elem) ELSE TokenText(toks[i])])

\* C2: a block whose key resolves to a sequence of strings and numbers is
\* replaced by one copy of the body per element, {{.}} replaced by the text
\* of the element whatever its characters, the copies joined by a newline.
C2_PrimitiveSequence ==
    (Expanded /\ HasOneBlock(tokens, ka) /\ Entry(ka).t = "array"
        /\ \A i \in 1..Len(Entry(ka).items) : Entry(ka).items[i].t \in {"string", "number"})
        => expanded = Flatten(Pre(tokens))
                      \o Join([i \in 1..Len(Entry(ka).items) |->
                                  BodyForElement(Body(tokens), Entry(ka).items[i])], <<"\n">>)
                      \o Flatten(Post(tokens))

----------------------------------------------------------------------------
(* C3 *)

\* C3: a block whose key resolves to a sequence of mappings is replaced by
\* the body rendered once per element, in order, with the element as the
\* context, the results joined by a newline.
C3_MappingSequence ==
    (Expanded /\ HasOneBlock(tokens, ka) /\ Entry(ka).t = "array"
        /\ \A i \in 1..Len(Entry(ka).items) : Entry(ka).items[i].t = "object")
        => expanded = Flatten(Pre(tokens))
                      \o Join([i \in 1..Len(Entry(ka).items) |->
                                  PiecesAgainst(Body(tokens), Entry(ka).items[i])], <<"\n">>)
                      \o Flatten(Post(tokens))

\* {{#a}}{{x}}{{/a}} against a = [{x: p}, {x: q}] became p, newline, q
C3_Witness ==
    /\ pc = "sections"
    /\ tokens = <<Tok("open", ka), Tok("var", kx), Tok("close", ka)>>
    /\ Entry(ka) = Arr(<<Obj(kx :> Str(<<"p">>)), Obj(kx :> Str(<<"q">>))>>)
    /\ expanded = <<"p", "\n", "q">>

----------------------------------------------------------------------------
(* C4 *)

\* C4: a placeholder {{key}} is replaced by the textual form of the value
\* exactly when the lookup finds the key, also when the value found is
\* false, 0 or the empty string; one that is not found stays as it is, and
\* rendering the output again against the same context changes nothing.
\* (The values of the contexts hold no placeholder text of their own.)
C4_SimplePlaceholder ==
    (Rendered /\ TagPositions(tokens) = {})
        => /\ out = PiecesAgainst(tokens, data)
           /\ (pc = "again" => out2 = out)

\* {{x}}{{0}} against x = 0: the falsy value was substituted, the unknown
\* placeholder survived both calls
C4_Witness ==
    /\ pc = "again"
    /\ tokens = <<Tok("var", kx), Tok("var", k0)>>
    /\ Entry(kx) = Num(0)
    /\ out = <<"0">> \o VarTag(k0)
    /\ out2 = out

----------------------------------------------------------------------------
(* C6 *)

RECURSIVE Balanced(_, _, _)
\* every closing tag closes the block opened last, and no block stays open
Balanced(toks, i, stack) ==
    IF i > Len(toks) THEN stack = <<>>
    ELSE IF toks[i].kind = "open" THEN Balanced(toks, i + 1, <<toks[i].s>> \o stack)
    ELSE IF toks[i].kind = "close"
         THEN /\ stack # <<>>
              /\ stack[1] = toks[i].s
              /\ Balanced(toks, i + 1, Tail(stack))
    ELSE Balanced(toks, i + 1, stack)

WellFormed(toks) == Balanced(toks, 1, <<>>)

SectionTagAt(s, i) ==
    \E k \in {ka, kb} : HasPrefixAt(s, i, OpenTag(k)) \/ HasPrefixAt(s, i, CloseTag(k))

NoSectionTag(s) == \A i \in 1..Len(s) : ~SectionTagAt(s, i)

\* C6: for a template whose blocks are well-formed and properly nested, no
\* opening or closing section tag is left when the variable replace starts,
\* nor in the output.
C6_AllSectionsResolved ==
    WellFormed(tokens)
        => /\ Expanded => NoSectionTag(expanded)
           /\ Rendered => NoSectionTag(out)

----------------------------------------------------------------------------
(* C8 *)

TruthyPrimitive(value) ==
    \/ value.t = "number" /\ value.n # 0
    \/ value.t = "string" /\ value.s # <<>>

\* C8 as stated: under a truthy number or string the placeholders of the
\* body are left literal in the output of the top-level call, whatever the
\* top-level context contains.  (Stated for the bodies that the inner call
\* returns unchanged, those whose keys name no character of the string.)
C8_LeftLiteral ==
    (Rendered /\ HasOneBlock(tokens, ka) /\ TruthyPrimitive(Entry(ka))
        /\ BodyAgainst(Body(tokens), Entry(ka)) = Flatten(Body(tokens)))
        => out = PiecesAgainst(Pre(tokens), data)
                 \o Flatten(Body(tokens))
                 \o PiecesAgainst(Post(tokens), data)

\* a piece of the body after both calls: what the primitive resolves is
\* substituted by the inner call, what it leaves literal is looked up again
\* in the top-level context by the variable replace of the outer call
PieceUnderPrimitive(tok, value) ==
    IF BodyAgainst(<<tok>>, value) # TokenText(tok)
    THEN BodyAgainst(<<tok>>, value)
    ELSE PieceAgainst(tok, data)

\* C8, amended: the body is rendered once; a placeholder of the body is left
\* literal in the output of the top-level call exactly when neither the
\* primitive nor the top-level context resolves its key, and is replaced by
\* the top-level value when only the top-level context resolves it.
C8_PrimitiveContext ==
    (Rendered /\ HasOneBlock(tokens, ka) /\ TruthyPrimitive(Entry(ka)))
        => out = PiecesAgainst(Pre(tokens), data)
                 \o Concat([i \in 1..Len(Body(tokens)) |->
                              PieceUnderPrimitive(Body(tokens)[i], Entry(ka))])
                 \o PiecesAgainst(Post(tokens), data)

\* {{#a}}{{x}}{{/a}} with a = "y" and x = "q" at the top level rendered q
C8_Witness ==
    /\ pc = "done"
    /\ tokens = <<Tok("open", ka), Tok("var", kx), Tok("close", ka)>>
    /\ Entry(ka) = Str(<<"y">>)
    /\ Entry(kx) = Str(<<"q">>)
    /\ out = <<"q">>

----------------------------------------------------------------------------
(* C9 *)

\* an opening tag with no closing tag for its key after it, or a closing
\* tag with no opening tag for its key before it
Unmatched(toks, i) ==
    \/ /\ toks[i].kind = "open"
       /\ ~\E j \in (i+1)..Len(toks) : toks[j] = Tok("close", toks[i].s)
    \/ /\ toks[i].kind = "close"
       /\ ~\E j \in 1..(i-1) : toks[j] = Tok("open", toks[i].s)

Contains(s, p) == \E i \in 1..Len(s) : HasPrefixAt(s, i, p)

RECURSIVE OutsideFrom(_, _)
\* the pieces from position i on that lie in no block, the blocks paired
\* from left to right: an opening tag with the first closing tag for its key
OutsideFrom(toks, i) ==
    IF i > Len(toks) THEN {}
    ELSE LET closers == {j \in (i+1)..Len(toks) : toks[j] = Tok("close", toks[i].s)}
         IN IF toks[i].kind = "open" /\ closers # {}
            THEN OutsideFrom(toks, Min(closers) + 1)
            ELSE {i} \cup OutsideFrom(toks, i + 1)

\* C9 as stated: every unmatched section tag appears unchanged in the output.
C9_UnmatchedLiteral ==
    Rendered => \A i \in 1..Len(tokens) :
                    Unmatched(tokens, i) => Contains(out, TokenText(tokens[i]))

\* C9, amended: an unmatched section tag outside every block that the
\* section pattern pairs appears unchanged in the output.
C9_OutsideLiteral ==
    Rendered => \A i \in OutsideFrom(tokens, 1) :
                    Unmatched(tokens, i) => Contains(out, TokenText(tokens[i]))

\* {{#a}}{{#b}}{{/b}}: the block for b was resolved, the opening tag for a
\* stayed
C9_Witness ==
    /\ pc = "done"
    /\ tokens = <<Tok("open", ka), Tok("open", kb), Tok("close", kb)>>
    /\ out = OpenTag(ka)

----------------------------------------------------------------------------
(* C5 *)

RECURSIVE DescendMappings(_, _)
\* the lookup that halts with not found at the first value that is no
\* mapping and at the first segment the mapping has no entry for
DescendMappings(current, segs) ==
    IF segs = <<>> THEN current
    ELSE IF current.t # "object" THEN Undefined
    ELSE IF segs[1] \notin DOMAIN current.entries THEN Undefined
    ELSE DescendMappings(current.entries[segs[1]], Tail(segs))

\* C5: getNestedValue returns not found as soon as the current value is a
\* string, number, boolean or sequence, or the mapping has no entry for the
\* segment, and the resolved value only when every segment was found in a
\* mapping.
C5_OnlyMappings ==
    lpc = "done" => lcur = DescendMappings(lobj, Split(lpath, "."))

----------------------------------------------------------------------------
(* C7 *)

LoopSteps == {"readTemplate", "readContent", "inlineCSS", "render", "write", "report"}

\* C7: once the loop is entered, whatever fails for whichever paper, every
\* paper of the list is processed: the reports come in list order, one for
\* each paper the loop has left, and build ends with one report per paper.
C7_EveryPaperReported ==
    /\ [](\A i \in 1..Len(reports) : reports[i].output = NEWSPAPERS[i].output)
    /\ [](bpc \in LoopSteps => Len(reports) = idx - 1)
    /\ [](bpc = "done" => Len(reports) = Len(NEWSPAPERS))
    /\ (bpc = "readTemplate" /\ idx = 1) ~> (bpc = "done")

\* the first and the last paper failed, the one between them was built
C7_Witness ==
    /\ bpc = "done"
    /\ Len(reports) = Len(NEWSPAPERS)
    /\ ~reports[1].ok /\ reports[2].ok /\ ~reports[3].ok

----------------------------------------------------------------------------
(* C10 *)

InputsOk(i) ==
    /\ files.templates[i].exists
    /\ files.content[i].exists
    /\ files.content[i].valid
    /\ files.styles[i].exists

\* the page of a paper whose three files are those of FileSystems
ExpectedHtml ==
    <<"<", "s", "t", "y", "l", "e", ">", "\n", "c", "\n",
      " ", " ", " ", " ", "<", "/", "s", "t", "y", "l", "e", ">", "n">>

\* C10: an output file is written only when reading the template, parsing
\* the content, inlining the stylesheet and rendering have succeeded for
\* its paper and the loop has reached the write for it; a paper that failed
\* at one of these steps has no output file and a failure report; a paper
\* reported as built has its page written in full.
C10_WriteAfterPipeline ==
    \A i \in Papers :
        LET o == NEWSPAPERS[i].output
        IN /\ o \in DOMAIN dist =>
                /\ InputsOk(i)
                /\ i < idx \/ (i = idx /\ bpc = "report")
           /\ (i <= Len(reports) /\ ~reports[i].ok /\ reports[i].message # "write")
                => o \notin DOMAIN dist
           /\ (i <= Len(reports) /\ ~InputsOk(i)) => ~reports[i].ok
           /\ (i <= Len(reports) /\ reports[i].ok)
                => o \in DOMAIN dist /\ dist[o] = ExpectedHtml

\* the first paper failed at its stylesheet and has no file, the second was
\* written and reported as built
C10_Witness ==
    /\ Len(reports) >= 2
    /\ reports[1] = [output |-> "index.html", ok |-> FALSE, message |-> "ENOENT style"]
    /\ "index.html" \notin DOMAIN dist
    /\ reports[2].ok
    /\ "standard.html" \in DOMAIN dist

====
